---- MODULE Spec2Model ----
(***************************************************************************)
(* Precision Audio Scope (src/Precision_Audio_Scope.py).                   *)
(*                                                                         *)
(* Two threads share math_buffer under buffer_lock: the PyAudio callback   *)
(* thread (audio_callback, the producer) and the GUI thread, which runs    *)
(* update on a timer and on_key on key presses (the consumer).             *)
(*                                                                         *)
(* Scale.  The program works at 48000 samples per second with a 480000     *)
(* sample deque.  The model keeps the code and shrinks the sizes: RATE,    *)
(* CHUNK, needed_samples and Capacity are small numbers that keep the      *)
(* order CHUNK < RATE < needed_samples < Capacity of the program; the      *)
(* clock counts whole units of which HOP_SEC is a few.  Real numbers       *)
(* (time_window, y_limit,                                                  *)
(* crossing times, frequencies) are exact fractions <<num, den>>; the      *)
(* rounding of binary floating point is not modelled.                      *)
(***************************************************************************)
EXTENDS Integers, Sequences, FiniteSets, TLC

(***************************************************************************)
(* Sizes of the model.                                                     *)
(***************************************************************************)
\* samples per second (line 15), scaled
RATE == 4
\* frames_per_buffer and trigger search length (line 16), scaled
CHUNK == 3
\* int(RATE * WINDOW_SEC) (line 168), scaled
needed_samples == 5
\* maxlen of math_buffer, RATE * 10 (line 33), scaled
Capacity == 6
\* HOP_SEC (line 18) in clock units
HOP_SEC == 1
\* value of time.time() when the program starts (far beyond HOP_SEC)
StartTime == 1
\* the clock stops advancing here
MaxTime == 2
\* most stereo frames one callback delivers
MaxChunk == 7
\* most samples pushed in one behaviour
MaxProduced == 7
\* most key presses in one behaviour
MaxKeys == 1
\* longest window handed to estimate_freq when it is called on its own
MaxWin == 7
\* most samples a sine window holds beyond three full cycles
MaxExtra == 2

\* CHANNELS (line 14)
CHANNELS == 2
\* 1 / HYST_FRAC (line 19)
HYST_DEN == 20
\* Python None, as the value of current_freq and of estimate_freq
None == <<>>
\* a local of update that is not assigned
Unset == <<>>
\* no estimate_freq call yet
Never == 0 - 1

(***************************************************************************)
(* Arithmetic helpers.                                                     *)
(***************************************************************************)
Min(a, b) == IF a <= b THEN a ELSE b
Abs(a) == IF a < 0 THEN 0 - a ELSE a

RECURSIVE GCD(_, _)
GCD(a, b) == IF b = 0 THEN a ELSE GCD(b, a % b)

\* a fraction <<n, d>> with d > 0, in lowest terms
Norm(q) ==
  LET g == GCD(Abs(q[1]), q[2])
  IN  IF g = 0 THEN q ELSE <<q[1] \div g, q[2] \div g>>
QLess(p, q) == p[1] * q[2] < q[1] * p[2]
QLeq(p, q) == p[1] * q[2] <= q[1] * p[2]
QMax(p, q) == IF QLess(p, q) THEN q ELSE p
QMin(p, q) == IF QLess(q, p) THEN q ELSE p
QMul(p, q) == Norm(<<p[1] * q[1], p[2] * q[2]>>)
QSub(p, q) == Norm(<<p[1] * q[2] - q[1] * p[2], p[2] * q[2]>>)
QAdd(p, q) == Norm(<<p[1] * q[2] + q[1] * p[2], p[2] * q[2]>>)
\* int(x) for x >= 0
QFloor(q) == q[1] \div q[2]

(***************************************************************************)
(* Python sequences.                                                       *)
(***************************************************************************)
\* s[-n:] for 1 <= n <= len(s)
LastN(s, n) == SubSeq(s, Len(s) - n + 1, Len(s))
\* s[k:] with a 0-based k >= 0
DropN(s, k) == SubSeq(s, k + 1, Len(s))
\* s[:n]
FirstN(s, n) == SubSeq(s, 1, Min(n, Len(s)))

RECURSIVE SumSeq(_)
SumSeq(s) == IF s = <<>> THEN 0 ELSE Head(s) + SumSeq(Tail(s))

(***************************************************************************)
(* estimate_freq (lines 37-80).  Times are fractions of a second.          *)
(***************************************************************************)
\* mutant: the mean is not subtracted
Centered_NoMean(samples) == [i \in 1..Len(samples) |-> Len(samples) * samples[i]]

\* x = [s - mean for s in samples], every element multiplied by len(samples)
Centered(samples) ==
  LET n == Len(samples)
      total == SumSeq(samples)
  IN  [i \in 1..n |-> n * samples[i] - total]

\* mutant: a zero peak is kept, so the threshold is zero on a constant window
PeakOf_NoFloor(x) ==
  LET mags == {Abs(x[i]) : i \in DOMAIN x}
  IN  CHOOSE v \in mags : \A w \in mags : w <= v

\* max(abs(v) for v in x) or 1.0, on the scale of Centered
PeakOf(x) ==
  LET mags == {Abs(x[i]) : i \in DOMAIN x}
      m == CHOOSE v \in mags : \A w \in mags : w <= v
  IN  IF m = 0 THEN Len(x) ELSE m

\* mutant: no hysteresis, any sample at or below zero arms the scan
Arms_NoHysteresis(b, peak) == b <= 0

\* b <= -th, with th = peak * HYST_FRAC and HYST_FRAC = 1 / HYST_DEN
Arms(b, peak) == HYST_DEN * b <= 0 - peak

\* a < 0 <= b
UpwardCrossing(a, b) == a < 0 /\ 0 <= b

\* mutant: the index is left out of the crossing time
CrossingTime_NoIndex(a, b, i, rate) ==
  LET denom == b - a
      frac == IF denom # 0 THEN Norm(<<0 - a, denom>>) ELSE <<0, 1>>
  IN  QMul(frac, <<1, rate>>)

\* t = (i - 1 + frac) / rate at the 0-based index i
CrossingTime(a, b, i, rate) ==
  LET denom == b - a
      frac == IF denom # 0 THEN Norm(<<0 - a, denom>>) ELSE <<0, 1>>
  IN  QMul(QAdd(<<i - 1, 1>>, frac), <<1, rate>>)

\* the loop of lines 52-67 from the 0-based index i on
RECURSIVE ScanFrom(_, _, _, _, _, _)
ScanFrom(x, peak, i, armed, crossings_t, rate) ==
  IF i >= Len(x) THEN crossings_t
  ELSE LET a == x[i]
           b == x[i + 1]
       IN  IF ~armed
             THEN ScanFrom(x, peak, i + 1, Arms(b, peak), crossings_t, rate)
             ELSE IF UpwardCrossing(a, b)
               THEN ScanFrom(x, peak, i + 1, FALSE,
                             Append(crossings_t, CrossingTime(a, b, i, rate)), rate)
               ELSE ScanFrom(x, peak, i + 1, TRUE, crossings_t, rate)

Crossings(samples, rate) ==
  LET x == Centered(samples)
  IN  ScanFrom(x, PeakOf(x), 1, FALSE, <<>>, rate)

\* mutant: every period measured from the first crossing
Periods_FromFirst(crossings_t) ==
  [i \in 1..(Len(crossings_t) - 1) |-> QSub(crossings_t[i + 1], crossings_t[1])]

Periods(crossings_t) ==
  [i \in 1..(Len(crossings_t) - 1) |-> QSub(crossings_t[i + 1], crossings_t[i])]

RECURSIVE InsertQ(_, _)
InsertQ(q, sorted) ==
  IF sorted = <<>> THEN <<q>>
  ELSE IF QLeq(q, Head(sorted)) THEN <<q>> \o sorted
  ELSE <<Head(sorted)>> \o InsertQ(q, Tail(sorted))

RECURSIVE SortQ(_)
SortQ(s) == IF s = <<>> THEN <<>> ELSE InsertQ(Head(s), SortQ(Tail(s)))

\* statistics.median
Median(periods) ==
  LET data == SortQ(periods)
      n == Len(data)
  IN  IF n % 2 = 1 THEN data[(n \div 2) + 1]
      ELSE QMul(QAdd(data[n \div 2], data[(n \div 2) + 1]), <<1, 2>>)

\* mutant: 0 Hz reported when fewer than two crossings were found
FreqOf_ZeroWhenSilent(crossings_t) ==
  IF Len(crossings_t) < 2 THEN <<0, 1>>
  ELSE LET T == Median(Periods(crossings_t))
       IN  IF T[1] <= 0 THEN None ELSE Norm(<<T[2], T[1]>>)

\* lines 69-80: the frequency 1.0 / T of the median period T, or None
FreqOf(crossings_t) ==
  IF Len(crossings_t) < 2 THEN None
  ELSE LET periods == Periods(crossings_t)
       IN  IF periods = <<>> THEN None
           ELSE LET T == Median(periods)
                IN  IF T[1] <= 0 THEN None
                    ELSE Norm(<<T[2], T[1]>>)

estimate_freq(samples, rate) ==
  IF Len(samples) < 2 THEN None
  ELSE FreqOf(Crossings(samples, rate))

(***************************************************************************)
(* The capture collaborator and struct.unpack (lines 84-89).               *)
(***************************************************************************)
\* the left sample of stream frame k (0-based) of the captured signal: an
\* oscillation 1, -2, 3, -4, ... in which no two samples are equal
SignalAt(k) == IF k % 2 = 0 THEN k + 1 ELSE 0 - (k + 1)

\* a signed 16 bit value as two little-endian bytes
Int16Bytes(v) ==
  LET u == IF v < 0 THEN v + 65536 ELSE v
  IN  <<u % 256, u \div 256>>

\* one interleaved stereo frame; the right channel carries the inverted signal
FrameBytes(l) == Int16Bytes(l) \o Int16Bytes(0 - l)

\* n whole frames from stream position pos on, then the first `extra` bytes
\* of the next frame
InData(pos, n, extra) ==
  [i \in 1..(2 * CHANNELS * n + extra) |->
     FrameBytes(SignalAt(pos + ((i - 1) \div (2 * CHANNELS))))[((i - 1) % (2 * CHANNELS)) + 1]]

\* the format "<" + "h" * (len(in_data) // 2) fits only an even byte count
UnpackRaises(in_data) == Len(in_data) # 2 * (Len(in_data) \div 2)

\* struct.unpack("<hh...h", in_data)
Unpack(in_data) ==
  [i \in 1..(Len(in_data) \div 2) |->
     LET u == in_data[2 * i - 1] + 256 * in_data[2 * i]
     IN  IF u >= 32768 THEN u - 65536 ELSE u]

\* s[0::CHANNELS]
LeftChannel(s) ==
  [k \in 1..((Len(s) + CHANNELS - 1) \div CHANNELS) |-> s[(k - 1) * CHANNELS + 1]]

\* mutant: a deque without maxlen
DequeAppend_Unbounded(buf, v) == buf \o <<v>>

\* mutant: a full deque that refuses the new sample instead of evicting the oldest
DequeAppend_DropNewest(buf, v) ==
  IF Len(buf) >= Capacity THEN buf ELSE buf \o <<v>>

\* collections.deque(maxlen = Capacity).append
DequeAppend(buf, v) ==
  IF Len(buf) >= Capacity THEN Tail(buf) \o <<v>> ELSE buf \o <<v>>

(***************************************************************************)
(* State.                                                                  *)
(***************************************************************************)
VARIABLES
  math_buffer,     \* the deque (line 33)
  buffer_lock,     \* who holds buffer_lock (line 34): "free", "producer", "consumer"
  p_pc,            \* audio_callback: "idle", "lock" (blocked at line 90), "extend" (line 91)
  left_channel,    \* audio_callback: the samples line 91 has not appended yet
  cb_in_len,       \* audio_callback: len(in_data) while the call is blocked or extending
  cb_result,       \* how the latest audio_callback call ended: "none", "continue", "raised"
  produced,        \* history: every sample handed to math_buffer.extend, in order
  completed,       \* history: len(produced) when the latest completed extend returned
  clock,           \* time.time()
  keys_used,       \* number of key presses so far
  time_window,     \* state['time_window']
  y_limit,         \* state['y_limit']
  trigger_on,      \* state['trigger_on']
  last_calc_time,  \* state['last_calc_time']
  current_freq,    \* state['current_freq']
  c_pc,            \* update: "idle", "lock", "copy", "freq", "trig", "plot", "except"
  all_data,        \* update: the snapshot (line 159)
  vis_data,        \* update: the visual slice (line 174)
  offset,          \* update: the trigger offset (lines 177-184)
  calc,            \* update: calc_input (line 169), Unset while estimate_freq was not called
  line_data,       \* the y data of the plotted line (line 189)
  xlim,            \* upper x limit of the axes (line 190)
  ylim,            \* upper y limit of the axes (line 191)
  est_at,          \* history: the clock at the latest estimate_freq call, or Never
  ef_pc,           \* estimate_freq: "off", "call" (line 37), "scan" (line 52), "done"
  ef_samples,      \* estimate_freq: the argument samples
  ef_x,            \* estimate_freq: x (line 43), on the scale of Centered
  ef_i,            \* estimate_freq: the loop index i (line 52)
  ef_armed,        \* estimate_freq: armed (line 49)
  ef_crossings_t,  \* estimate_freq: crossings_t (line 48)
  ef_result,       \* estimate_freq: the value returned, Unset before the return
  ef_armed_at,     \* history: the indices i at which line 57 set armed
  ef_crossed_at    \* history: the indices i at which line 66 appended a crossing

vars == <<math_buffer, buffer_lock, p_pc, left_channel, cb_in_len, cb_result,
          produced, completed, clock, keys_used, time_window, y_limit, trigger_on,
          last_calc_time, current_freq, c_pc, all_data, vis_data, offset, calc,
          line_data, xlim, ylim, est_at, ef_pc, ef_samples, ef_x, ef_i, ef_armed,
          ef_crossings_t, ef_result, ef_armed_at, ef_crossed_at>>

producer_vars == <<p_pc, left_channel, cb_in_len, cb_result, produced, completed>>
state_vars == <<time_window, y_limit, trigger_on, last_calc_time, current_freq>>
key_vars == <<keys_used, time_window, y_limit, trigger_on>>
update_locals == <<c_pc, all_data, vis_data, offset, calc>>
display_vars == <<line_data, xlim, ylim>>
history_vars == <<est_at>>
scan_vars == <<ef_x, ef_i, ef_armed, ef_crossings_t, ef_armed_at, ef_crossed_at>>
estimate_vars == <<ef_pc, ef_samples, ef_result, scan_vars>>
scope_vars == <<math_buffer, buffer_lock, producer_vars, clock, key_vars, last_calc_time,
                current_freq, update_locals, display_vars, history_vars>>

trigger_level == 0

\* no call of estimate_freq is in progress
EstimateIdle ==
  /\ ef_pc = "off"
  /\ ef_samples = <<>>
  /\ ef_x = <<>>
  /\ ef_i = 0
  /\ ef_armed = FALSE
  /\ ef_crossings_t = <<>>
  /\ ef_result = Unset
  /\ ef_armed_at = <<>>
  /\ ef_crossed_at = <<>>

\* the program after line 34, before the stream and the animation start
ScopeInit ==
  /\ math_buffer = <<>>
  /\ buffer_lock = "free"
  /\ p_pc = "idle"
  /\ left_channel = <<>>
  /\ cb_in_len = 0
  /\ cb_result = "none"
  /\ produced = <<>>
  /\ completed = 0
  /\ clock = StartTime
  /\ keys_used = 0
  /\ time_window = <<1, 1>>
  /\ y_limit = <<32768, 1>>
  /\ trigger_on = TRUE
  /\ last_calc_time = 0
  /\ current_freq = None
  /\ c_pc = "idle"
  /\ all_data = <<>>
  /\ vis_data = <<>>
  /\ offset = 0
  /\ calc = Unset
  /\ line_data = <<>>
  /\ xlim = 1
  /\ ylim = 1
  /\ est_at = Never

Init == ScopeInit /\ EstimateIdle

(***************************************************************************)
(* audio_callback (lines 84-92), on the PyAudio thread.                    *)
(***************************************************************************)
\* mutant: the with statement does not wait for the lock
CanAcquire_NoWait(lock) == TRUE

\* threading.Lock.acquire returns only when nobody holds the lock
CanAcquire(lock) == lock = "free"

\* lines 85-89: the call, up to the point where it blocks on buffer_lock
audio_callback_enter ==
  /\ p_pc = "idle"
  /\ \E n \in 0..MaxChunk, extra \in 0..(2 * CHANNELS - 1) :
       LET in_data == InData(Len(produced), n, extra)
       IN  /\ Len(produced) + n <= MaxProduced
           /\ Len(produced) + Len(LeftChannel(Unpack(in_data))) <= MaxProduced
           /\ IF in_data = <<>>
                THEN /\ cb_result' = "continue"
                     /\ UNCHANGED <<p_pc, left_channel, cb_in_len>>
                ELSE IF UnpackRaises(in_data)
                  THEN /\ cb_result' = "raised"
                       /\ UNCHANGED <<p_pc, left_channel, cb_in_len>>
                  ELSE /\ left_channel' = LeftChannel(Unpack(in_data))
                       /\ cb_in_len' = Len(in_data)
                       /\ p_pc' = "lock"
                       /\ cb_result' = "none"
  /\ UNCHANGED <<math_buffer, buffer_lock, produced, completed, clock>>
  /\ UNCHANGED <<key_vars, last_calc_time, current_freq, update_locals, display_vars,
                 history_vars, estimate_vars>>

\* line 90: with buffer_lock (enter)
audio_callback_acquire ==
  /\ p_pc = "lock"
  /\ CanAcquire(buffer_lock)
  /\ buffer_lock' = "producer"
  /\ p_pc' = "extend"
  /\ produced' = produced \o left_channel
  /\ UNCHANGED <<math_buffer, left_channel, cb_in_len, cb_result, completed, clock>>
  /\ UNCHANGED <<key_vars, last_calc_time, current_freq, update_locals, display_vars,
                 history_vars, estimate_vars>>

\* line 91: math_buffer.extend, one sample at a time
audio_callback_extend ==
  /\ p_pc = "extend"
  /\ left_channel # <<>>
  /\ math_buffer' = DequeAppend(math_buffer, Head(left_channel))
  /\ left_channel' = Tail(left_channel)
  /\ UNCHANGED <<buffer_lock, p_pc, cb_in_len, cb_result, produced, completed, clock>>
  /\ UNCHANGED <<key_vars, last_calc_time, current_freq, update_locals, display_vars,
                 history_vars, estimate_vars>>

\* lines 90-92: with buffer_lock (exit) and return (None, paContinue)
audio_callback_return ==
  /\ p_pc = "extend"
  /\ left_channel = <<>>
  /\ buffer_lock' = "free"
  /\ p_pc' = "idle"
  /\ cb_result' = "continue"
  /\ completed' = Len(produced)
  /\ cb_in_len' = 0
  /\ UNCHANGED <<math_buffer, left_channel, produced, clock>>
  /\ UNCHANGED <<key_vars, last_calc_time, current_freq, update_locals, display_vars,
                 history_vars, estimate_vars>>

(***************************************************************************)
(* on_key (lines 141-151) and the clock.  on_key and update are callbacks  *)
(* of the one GUI event loop, so a key press is handled between two ticks. *)
(***************************************************************************)
Keys == {"right", "left", "up", "down", "t", "other"}

\* 1.5
ZoomFactor == <<3, 2>>
\* the floor of time_window (0.002 s in the program), scaled with RATE
MinTimeWindow == <<1, 2>>
MinYLimit == <<200, 1>>
MaxYLimit == <<32768, 1>>

on_key(key) ==
  /\ c_pc = "idle"
  /\ keys_used < MaxKeys
  /\ keys_used' = keys_used + 1
  /\ time_window' =
       IF key = "right" THEN QMul(time_window, ZoomFactor)
       ELSE IF key = "left"
         THEN QMax(MinTimeWindow, QMul(time_window, <<ZoomFactor[2], ZoomFactor[1]>>))
       ELSE time_window
  /\ y_limit' =
       IF key = "up"
         THEN QMax(MinYLimit, QMul(y_limit, <<ZoomFactor[2], ZoomFactor[1]>>))
       ELSE IF key = "down" THEN QMin(MaxYLimit, QMul(y_limit, ZoomFactor))
       ELSE y_limit
  /\ trigger_on' = IF key = "t" THEN ~trigger_on ELSE trigger_on
  /\ UNCHANGED <<math_buffer, buffer_lock, producer_vars, clock>>
  /\ UNCHANGED <<last_calc_time, current_freq, update_locals, display_vars, history_vars,
                 estimate_vars>>

\* time passes
Tick ==
  /\ clock < MaxTime
  /\ clock' = clock + 1
  /\ UNCHANGED <<math_buffer, buffer_lock, producer_vars>>
  /\ UNCHANGED <<key_vars, last_calc_time, current_freq, update_locals, display_vars,
                 history_vars, estimate_vars>>

(***************************************************************************)
(* update (lines 156-203), on the GUI thread.                              *)
(***************************************************************************)
\* mutant: the whole body of update indented under `with buffer_lock:`
with_buffer_lock_WholeTick == {"copy", "freq", "trig", "plot"}

\* the positions of update that lie inside `with buffer_lock:` (lines 158-159)
with_buffer_lock == {"copy"}

\* buffer_lock as update leaves it when it moves to position pc
ConsumerLock(pc, lock) ==
  IF pc \in with_buffer_lock THEN "consumer"
  ELSE IF lock = "consumer" THEN "free" ELSE lock

\* mutant: the hop interval is not waited for
HopElapsed_EveryTick(now, last) == now - last >= 0

\* line 166
HopElapsed(now, last) == now - last >= HOP_SEC

\* mutant: the analysis window cut to the length of the visual window
calc_input_Visual(data) ==
  LET n == QFloor(QMul(<<RATE, 1>>, time_window))
  IN  IF Len(data) >= n /\ n > 0 THEN LastN(data, n) ELSE data

\* line 169
calc_input(data) ==
  IF Len(data) >= needed_samples THEN LastN(data, needed_samples) ELSE data

\* line 173
num_vis == QFloor(QMul(<<RATE, 1>>, time_window))

\* line 174; data[-0:] is the whole list
VisData(data, n) ==
  IF Len(data) >= n
    THEN IF n = 0 THEN data ELSE LastN(data, n)
    ELSE data

\* mutant: zero counted as positive
Sign_ZeroPositive(v) == IF v >= 0 THEN 1 ELSE 0 - 1

\* np.sign
Sign(v) == IF v > 0 THEN 1 ELSE IF v < 0 THEN 0 - 1 ELSE 0

\* mutant: the whole visual window is searched, not its first CHUNK samples
TriggerOffset_SearchAll(vis, on, level) ==
  IF on /\ Len(vis) > CHUNK
    THEN LET signs == [i \in 1..Len(vis) |-> Sign(vis[i] - level)]
             triggers == {i \in 0..(Len(signs) - 2) : signs[i + 2] - signs[i + 1] > 0}
         IN  IF triggers # {}
               THEN CHOOSE i \in triggers : \A j \in triggers : i <= j
               ELSE 0
    ELSE 0

\* lines 177-184
TriggerOffset(vis, on, level) ==
  IF on /\ Len(vis) > CHUNK
    THEN LET search_area == FirstN(vis, CHUNK)
             signs == [i \in 1..Len(search_area) |-> Sign(search_area[i] - level)]
             triggers == {i \in 0..(Len(signs) - 2) : signs[i + 2] - signs[i + 1] > 0}
         IN  IF triggers # {}
               THEN CHOOSE i \in triggers : \A j \in triggers : i <= j
               ELSE 0
    ELSE 0

\* the animation timer fires: update is called and reaches line 158
update_enter ==
  /\ c_pc = "idle"
  /\ c_pc' = "lock"
  /\ UNCHANGED <<math_buffer, buffer_lock, producer_vars, clock>>
  /\ UNCHANGED <<key_vars, last_calc_time, current_freq, all_data, vis_data, offset, calc,
                 display_vars, history_vars, estimate_vars>>

\* line 158: with buffer_lock (enter)
update_acquire ==
  /\ c_pc = "lock"
  /\ CanAcquire(buffer_lock)
  /\ c_pc' = "copy"
  /\ buffer_lock' = "consumer"
  /\ UNCHANGED <<math_buffer, producer_vars, clock>>
  /\ UNCHANGED <<key_vars, last_calc_time, current_freq, all_data, vis_data, offset, calc,
                 display_vars, history_vars, estimate_vars>>

\* lines 159-162: the copy, the end of the with block, the return on no data
update_snapshot ==
  /\ c_pc = "copy"
  /\ c_pc' = IF math_buffer = <<>> THEN "idle" ELSE "freq"
  /\ all_data' = math_buffer
  /\ buffer_lock' = ConsumerLock(c_pc', buffer_lock)
  /\ UNCHANGED <<math_buffer, producer_vars, clock>>
  /\ UNCHANGED <<key_vars, last_calc_time, current_freq, vis_data, offset, calc,
                 display_vars, history_vars, estimate_vars>>

\* mutant: line 167 left out, the time of the computation is not stored
update_freq_NoTimestamp ==
  /\ c_pc = "freq"
  /\ c_pc' = "trig"
  /\ LET now == clock
     IN  IF now - last_calc_time >= HOP_SEC
           THEN /\ calc' = IF Len(all_data) >= needed_samples
                             THEN LastN(all_data, needed_samples) ELSE all_data
                /\ current_freq' = estimate_freq(calc', RATE)
                /\ est_at' = now
                /\ UNCHANGED last_calc_time
           ELSE UNCHANGED <<last_calc_time, current_freq, calc, est_at>>
  /\ buffer_lock' = IF buffer_lock = "consumer" THEN "free" ELSE buffer_lock
  /\ UNCHANGED <<math_buffer, producer_vars, clock>>
  /\ UNCHANGED <<key_vars, all_data, vis_data, offset, display_vars, estimate_vars>>

\* lines 165-170
update_freq ==
  /\ c_pc = "freq"
  /\ c_pc' = "trig"
  /\ LET now == clock
     IN  IF HopElapsed(now, last_calc_time)
           THEN /\ last_calc_time' = now
                /\ calc' = calc_input(all_data)
                /\ current_freq' = estimate_freq(calc', RATE)
                /\ est_at' = now
           ELSE UNCHANGED <<last_calc_time, current_freq, calc, est_at>>
  /\ buffer_lock' = ConsumerLock(c_pc', buffer_lock)
  /\ UNCHANGED <<math_buffer, producer_vars, clock>>
  /\ UNCHANGED <<key_vars, all_data, vis_data, offset, display_vars, estimate_vars>>

\* lines 173-184
update_trigger ==
  /\ c_pc = "trig"
  /\ c_pc' = "plot"
  /\ vis_data' = VisData(all_data, num_vis)
  /\ offset' = TriggerOffset(vis_data', trigger_on, trigger_level)
  /\ buffer_lock' = ConsumerLock(c_pc', buffer_lock)
  /\ UNCHANGED <<math_buffer, producer_vars, clock>>
  /\ UNCHANGED <<key_vars, last_calc_time, current_freq, all_data, calc, display_vars,
                 history_vars, estimate_vars>>

\* lines 186-201: plot_data, the line, the axes limits, return
update_plot ==
  /\ c_pc = "plot"
  /\ c_pc' = "idle"
  /\ LET plot_data == DropN(vis_data, offset)
     IN  /\ line_data' = plot_data
         /\ xlim' = Len(plot_data)
  /\ ylim' = y_limit
  /\ all_data' = <<>>
  /\ vis_data' = <<>>
  /\ offset' = 0
  /\ calc' = Unset
  /\ buffer_lock' = ConsumerLock(c_pc', buffer_lock)
  /\ UNCHANGED <<math_buffer, producer_vars, clock>>
  /\ UNCHANGED <<key_vars, last_calc_time, current_freq, history_vars, estimate_vars>>

(***************************************************************************)
(* The program.                                                            *)
(***************************************************************************)
Next ==
  \/ audio_callback_enter
  \/ audio_callback_acquire
  \/ audio_callback_extend
  \/ audio_callback_return
  \/ \E key \in Keys : on_key(key)
  \/ Tick
  \/ update_enter
  \/ update_acquire
  \/ update_snapshot
  \/ update_freq
  \/ update_trigger
  \/ update_plot

Spec == Init /\ [][Next]_vars

\* The thread blocked on buffer_lock gets it once it is free often enough; a
\* thread inside a with block runs to the end of the block.  Nothing is
\* assumed about the analysis steps of update.
LiveSpec ==
  /\ Spec
  /\ SF_vars(audio_callback_acquire)
  /\ WF_vars(audio_callback_extend)
  /\ WF_vars(audio_callback_return)
  /\ WF_vars(update_snapshot)

(***************************************************************************)
(* update with failing steps: any statement of the try block (lines        *)
(* 157-201) may raise an exception of class Exception, which line 202      *)
(* catches.                                                                *)
(***************************************************************************)
\* a statement raises at the position c_pc; `stored` tells whether line 167
\* ran before a failure of lines 166-170, `done` how many of the calls of
\* lines 189-191 returned before a failure of lines 186-199
update_raises ==
  /\ c_pc \in {"copy", "freq", "trig", "plot"}
  /\ c_pc' = "except"
  /\ buffer_lock' = ConsumerLock(c_pc', buffer_lock)
  /\ IF c_pc = "freq" /\ HopElapsed(clock, last_calc_time)
       THEN \E stored \in BOOLEAN :
              /\ last_calc_time' = IF stored THEN clock ELSE last_calc_time
              /\ est_at' = IF stored THEN clock ELSE est_at
       ELSE UNCHANGED <<last_calc_time, est_at>>
  /\ IF c_pc = "plot"
       THEN \E done \in 0..3 :
              LET plot_data == DropN(vis_data, offset)
              IN  /\ line_data' = IF done >= 1 THEN plot_data ELSE line_data
                  /\ xlim' = IF done >= 2 THEN Len(plot_data) ELSE xlim
                  /\ ylim' = IF done >= 3 THEN y_limit ELSE ylim
       ELSE UNCHANGED display_vars
  /\ UNCHANGED <<math_buffer, producer_vars, clock>>
  /\ UNCHANGED <<key_vars, current_freq, all_data, vis_data, offset, calc, estimate_vars>>

\* lines 202-203: except Exception: return line,
update_except ==
  /\ c_pc = "except"
  /\ c_pc' = "idle"
  /\ all_data' = <<>>
  /\ vis_data' = <<>>
  /\ offset' = 0
  /\ calc' = Unset
  /\ UNCHANGED <<math_buffer, buffer_lock, producer_vars, clock>>
  /\ UNCHANGED <<key_vars, last_calc_time, current_freq, display_vars, history_vars,
                 estimate_vars>>

FaultNext ==
  \/ Next
  \/ update_raises
  \/ update_except

FaultSpec == Init /\ [][FaultNext]_vars

(***************************************************************************)
(* estimate_freq (lines 37-80) statement by statement, called on its own   *)
(* with a window drawn from EstWindows.                                    *)
(***************************************************************************)
\* sample values: silence, a small negative value and a larger positive one,
\* so that a centered sample can lie inside the hysteresis band
EstSamples == {0 - 1, 0, 4}

EstWindows == UNION {[1..n -> EstSamples] : n \in 0..MaxWin}

\* One table period of a noise-free sine of amplitude 10 rounded to integers,
\* as the capture delivers it: round(10 * sin(2 * pi * k * cycles / len(table)))
\* for k = 0 .. len(table) - 1.  The first three hold one cycle in 4, 6 and 8
\* samples, the last holds two cycles in 5 samples (2.5 samples per cycle).
SineTables ==
  { [table |-> <<0, 10, 0, -10>>, cycles |-> 1],
    [table |-> <<0, 9, 9, 0, -9, -9>>, cycles |-> 1],
    [table |-> <<0, 7, 10, 7, 0, -7, -10, -7>>, cycles |-> 1],
    [table |-> <<0, 6, -10, 10, -6>>, cycles |-> 2] }

\* constant offsets added to a sine
SineOffsets == {0, 3, -50}

\* the fewest samples that hold three full cycles of the sine s
ThreeCycles(s) == (3 * Len(s.table) + s.cycles - 1) \div s.cycles

\* a sine, the phase it starts at, the window length, the offset
SineInputs ==
  UNION { { [sine |-> s, start |-> st, n |-> n, dc |-> dc] :
              st \in 0..(Len(s.table) - 1),
              n \in ThreeCycles(s)..(ThreeCycles(s) + MaxExtra),
              dc \in SineOffsets } : s \in SineTables }

\* the samples of the input d
SineWindow(d) ==
  [k \in 1..d.n |-> d.sine.table[((d.start + k - 1) % Len(d.sine.table)) + 1] + d.dc]

\* the frequency of the sine s at the sample rate `rate`
SineFreq(s, rate) == Norm(<<rate * s.cycles, Len(s.table)>>)

EstInit ==
  /\ ScopeInit
  /\ ef_pc = "call"
  /\ ef_samples \in EstWindows \cup {SineWindow(d) : d \in SineInputs}
  /\ ef_x = <<>>
  /\ ef_i = 0
  /\ ef_armed = FALSE
  /\ ef_crossings_t = <<>>
  /\ ef_result = Unset
  /\ ef_armed_at = <<>>
  /\ ef_crossed_at = <<>>

\* lines 38-49: the early return, the centered window, the scan variables
estimate_freq_call ==
  /\ ef_pc = "call"
  /\ IF Len(ef_samples) < 2
       THEN /\ ef_result' = None
            /\ ef_pc' = "done"
            /\ UNCHANGED scan_vars
       ELSE /\ ef_x' = Centered(ef_samples)
            /\ ef_i' = 1
            /\ ef_armed' = FALSE
            /\ ef_crossings_t' = <<>>
            /\ ef_pc' = "scan"
            /\ UNCHANGED <<ef_result, ef_armed_at, ef_crossed_at>>
  /\ UNCHANGED <<scope_vars, ef_samples>>

\* lines 52-67: one iteration of the loop, at the 0-based index ef_i
estimate_freq_scan ==
  /\ ef_pc = "scan"
  /\ ef_i < Len(ef_x)
  /\ LET a == ef_x[ef_i]
         b == ef_x[ef_i + 1]
         peak == PeakOf(ef_x)
     IN  IF ~ef_armed
           THEN /\ ef_armed' = Arms(b, peak)
                /\ ef_armed_at' = IF Arms(b, peak) THEN Append(ef_armed_at, ef_i)
                                                   ELSE ef_armed_at
                /\ UNCHANGED <<ef_crossings_t, ef_crossed_at>>
           ELSE IF UpwardCrossing(a, b)
             THEN /\ ef_crossings_t' = Append(ef_crossings_t, CrossingTime(a, b, ef_i, RATE))
                  /\ ef_armed' = FALSE
                  /\ ef_crossed_at' = Append(ef_crossed_at, ef_i)
                  /\ UNCHANGED ef_armed_at
             ELSE UNCHANGED <<ef_armed, ef_crossings_t, ef_armed_at, ef_crossed_at>>
  /\ ef_i' = ef_i + 1
  /\ UNCHANGED <<scope_vars, ef_pc, ef_samples, ef_x, ef_result>>

\* lines 69-80: the end of the loop and the return
estimate_freq_return ==
  /\ ef_pc = "scan"
  /\ ef_i >= Len(ef_x)
  /\ ef_result' = FreqOf(ef_crossings_t)
  /\ ef_pc' = "done"
  /\ UNCHANGED <<scope_vars, ef_samples, scan_vars>>

EstNext ==
  \/ estimate_freq_call
  \/ estimate_freq_scan
  \/ estimate_freq_return

EstSpec == EstInit /\ [][EstNext]_vars

(***************************************************************************)
(* The trigger and plot steps of update (lines 173-201) on their own: a    *)
(* tick that has just passed line 170, with a snapshot drawn from          *)
(* TrigWindows and the settings the keys can produce.                      *)
(***************************************************************************)
TrigSamples == {0 - 1, 0, 1}

TrigWindows == UNION {[1..n -> TrigSamples] : n \in 1..Capacity}

\* values of time_window that on_key reaches from 1.0
TimeWindows == {<<1, 2>>, <<2, 3>>, <<1, 1>>, <<3, 2>>}

TrigInit ==
  /\ EstimateIdle
  /\ math_buffer \in TrigWindows
  /\ buffer_lock = "free"
  /\ p_pc = "idle"
  /\ left_channel = <<>>
  /\ cb_in_len = 0
  /\ cb_result = "continue"
  /\ produced = math_buffer
  /\ completed = Len(produced)
  /\ clock = StartTime
  /\ keys_used = 0
  /\ time_window \in TimeWindows
  /\ y_limit = <<32768, 1>>
  /\ trigger_on \in BOOLEAN
  /\ last_calc_time = clock
  /\ c_pc = "trig"
  /\ all_data = math_buffer
  /\ calc = calc_input(all_data)
  /\ current_freq = estimate_freq(calc, RATE)
  /\ est_at = clock
  /\ vis_data = <<>>
  /\ offset = 0
  /\ line_data = <<>>
  /\ xlim = 1
  /\ ylim = 1

TrigNext ==
  \/ update_trigger
  \/ update_plot

TrigSpec == TrigInit /\ [][TrigNext]_vars

TypeOK ==
  /\ buffer_lock \in {"free", "producer", "consumer"}
  /\ p_pc \in {"idle", "lock", "extend"}
  /\ c_pc \in {"idle", "lock", "copy", "freq", "trig", "plot", "except"}
  /\ cb_result \in {"none", "continue", "raised"}
  /\ clock \in StartTime..MaxTime

(***************************************************************************)
(* Properties.                                                             *)
(***************************************************************************)
\* the most recent n samples of s, all of s when it holds fewer
MostRecent(s, n) == SubSeq(s, Len(s) - Min(n, Len(s)) + 1, Len(s))

\* the content of the buffer when the latest completed push returned
StableBuffer == MostRecent(SubSeq(produced, 1, completed), Capacity)

\* C1: in every reachable state, whatever the chunk sizes and the interleaving
\* of pushes and ticks, math_buffer holds at most Capacity samples, and so
\* does every snapshot update has taken.
C1_LengthBounded ==
  /\ Len(math_buffer) <= Capacity
  /\ Len(all_data) <= Capacity

\* a chunk longer than the capacity has been pushed whole and a tick has
\* taken a snapshot of the full buffer
C1_Witness ==
  /\ completed > Capacity
  /\ Len(math_buffer) = Capacity
  /\ c_pc = "freq"
  /\ Len(all_data) = Capacity

\* C2: between pushes the buffer holds the last min(Capacity, total) samples
\* of the concatenation of everything pushed, in the order of production
\* (the left samples of the stream, none missing, doubled or out of place).
C2_MostRecentInOrder ==
  /\ \A i \in 1..Len(produced) : produced[i] = SignalAt(i - 1)
  /\ p_pc # "extend" => math_buffer = MostRecent(produced, Capacity)

\* several pushes are done and the oldest samples have been evicted
C2_Witness ==
  /\ p_pc = "idle"
  /\ Len(produced) > Capacity
  /\ math_buffer # <<>>
  /\ Head(math_buffer) # Head(produced)

\* C3: the snapshot of a tick is the buffer content at a push boundary (the
\* content left by the latest completed push, never a part of a chunk), and
\* nothing that happens while the tick analyses it changes it.
C3_ConsistentSnapshot ==
  [][ /\ (c_pc = "copy" /\ c_pc' # "copy") => all_data' = StableBuffer
      /\ (c_pc \in {"freq", "trig"}) => all_data' = all_data ]_vars

\* a tick is analysing its snapshot while the producer is in the middle of
\* a later push
C3_Witness ==
  /\ c_pc \in {"freq", "trig"}
  /\ p_pc = "extend"
  /\ left_channel # <<>>
  /\ math_buffer # all_data

\* C4: the extend of audio_callback and the copy of update run only with
\* buffer_lock held by their thread, so the two are never in progress at the
\* same time.
C4_MutualExclusion ==
  /\ p_pc = "extend" => buffer_lock = "producer"
  /\ c_pc = "copy" => buffer_lock = "consumer"
  /\ ~(p_pc = "extend" /\ c_pc = "copy")

\* the producer is extending while update waits for the lock
C4_Witness ==
  /\ p_pc = "extend"
  /\ left_channel # <<>>
  /\ c_pc = "lock"

C6_ProducerProgress ==
  /\ (p_pc = "lock") ~> (p_pc = "idle" /\ cb_result = "continue")
  /\ []((p_pc = "lock" /\ buffer_lock # "free") => (buffer_lock = "consumer" /\ c_pc = "copy"))

\* the producer is blocked: update holds the lock for its copy
C6_Witness ==
  /\ p_pc = "lock"
  /\ buffer_lock = "consumer"
  /\ c_pc = "copy"

\* C7: audio_callback never raises, and a frame that is not a whole number of
\* stereo frames is dropped: none of its samples gets as far as the push.
C7_NeverRaisesDropsMalformed ==
  /\ cb_result # "raised"
  /\ p_pc \in {"lock", "extend"} => cb_in_len % (2 * CHANNELS) = 0

\* the step of update that decides about the frequency computation
FreqStep == c_pc = "freq" /\ c_pc' = "trig"

\* C8: two successive calls of estimate_freq are at least HOP_SEC apart, and a
\* tick at which less than HOP_SEC has passed since last_calc_time calls
\* nothing and leaves current_freq and last_calc_time as they are.
C8_RateLimited ==
  [][ /\ (FreqStep /\ calc' # Unset /\ est_at # Never) => clock - est_at >= HOP_SEC
      /\ (FreqStep /\ clock - last_calc_time < HOP_SEC) =>
           (calc' = Unset /\ UNCHANGED <<current_freq, last_calc_time, est_at>>) ]_vars

\* a tick has skipped the computation because the last one is too recent
C8_Witness ==
  /\ c_pc = "trig"
  /\ calc = Unset
  /\ est_at = clock
  /\ current_freq # None

\* C9 as claimed: on every tick at which at least HOP_SEC has passed since
\* the last computation, whatever the snapshot holds (also nothing), the
\* estimator is called on the snapshot and its result and the time are stored.
C9_EveryDueTickComputes ==
  [][ ((FreqStep \/ (c_pc = "copy" /\ c_pc' = "idle")) /\ clock - last_calc_time >= HOP_SEC) =>
        /\ last_calc_time' = clock
        /\ est_at' = clock
        /\ current_freq' = estimate_freq(MostRecent(all_data', needed_samples), RATE) ]_vars

\* C9 amended: on every tick with a snapshot that is not empty at which at
\* least HOP_SEC has passed since the last computation, the estimator is
\* called on the most recent needed_samples samples of the snapshot (on all of
\* it when it holds fewer, down to one) and its result and the time are
\* stored; a tick with an empty snapshot returns before the frequency step
\* and leaves current_freq and last_calc_time as they are.
C9_DueTickWithDataComputes ==
  [][ /\ (FreqStep /\ clock - last_calc_time >= HOP_SEC) =>
           /\ all_data # <<>>
           /\ calc' = MostRecent(all_data, needed_samples)
           /\ last_calc_time' = clock
           /\ est_at' = clock
           /\ current_freq' = estimate_freq(MostRecent(all_data, needed_samples), RATE)
      /\ (c_pc = "copy" /\ c_pc' # "copy" /\ math_buffer = <<>>) =>
           /\ c_pc' = "idle"
           /\ UNCHANGED <<current_freq, last_calc_time, est_at, calc>> ]_vars

\* a due tick has called the estimator on a snapshot shorter than the
\* analysis window and stored the time
C9_Witness ==
  /\ c_pc = "trig"
  /\ calc # Unset
  /\ calc = all_data
  /\ Len(calc) < needed_samples
  /\ last_calc_time = clock

\* C10: the window handed to estimate_freq is the most recent
\* min(len(snapshot), needed_samples) samples of the snapshot, whatever
\* time_window is, and a key press changes neither the buffer, the snapshot,
\* the window nor the stored estimate.
C10_FixedAnalysisWindow ==
  [][ /\ (FreqStep /\ calc' # Unset) =>
           /\ calc' = MostRecent(all_data, needed_samples)
           /\ current_freq' = estimate_freq(calc', RATE)
      /\ (keys_used' # keys_used) =>
           UNCHANGED <<math_buffer, all_data, calc, current_freq, last_calc_time>> ]_vars

\* after a key press that changed the visual window, the estimator got the
\* last needed_samples samples of a longer snapshot
C10_Witness ==
  /\ c_pc = "trig"
  /\ keys_used > 0
  /\ time_window # <<1, 1>>
  /\ num_vis # needed_samples
  /\ calc # Unset
  /\ Len(all_data) > needed_samples
  /\ Len(calc) = needed_samples

\* C11: every value estimate_freq returns, which is the value update stores in
\* current_freq, is None or a strictly positive finite frequency.
C11_NoneOrPositive ==
  ef_pc = "done" =>
    /\ ef_result = estimate_freq(ef_samples, RATE)
    /\ \/ ef_result = None
       \/ ef_result[1] > 0 /\ ef_result[2] > 0

\* a call returned a frequency taken from the median of two periods
C11_Witness ==
  /\ ef_pc = "done"
  /\ ef_result # None
  /\ Len(ef_crossings_t) = 3

\* the window w with the constant c added to every sample
Shift(w, c) == [k \in DOMAIN w |-> w[k] + c]

EstBiases == {0 - 7, 3, 1000}

IsConstant(w) == \A j, k \in DOMAIN w : w[j] = w[k]

\* C13: estimate_freq returns None whenever the scan found fewer than two
\* crossings; so it does for a window shorter than 2 and for a constant
\* window, on which the scan never arms because the zero peak is replaced.
C13_NoneWhenFewCrossings ==
  ef_pc = "done" =>
    /\ Len(ef_crossings_t) = Len(ef_crossed_at)
    /\ Len(ef_crossed_at) < 2 => ef_result = None
    /\ Len(ef_samples) < 2 => ef_result = None
    /\ IsConstant(ef_samples) => ef_result = None /\ ef_armed_at = <<>>

\* a call on a constant window of non-zero samples went through the scan
C13_Witness ==
  /\ ef_pc = "done"
  /\ Len(ef_samples) >= 3
  /\ IsConstant(ef_samples)
  /\ ef_samples[1] # 0
  /\ ef_i = Len(ef_samples)
  /\ ef_result = None

\* C14: the scan is a two-state machine that starts UNARMED; it goes from
\* UNARMED to ARMED only at an index whose centered sample is <= -th, from
\* ARMED to UNARMED only where the previous sample is < 0 and the current one
\* >= 0, and it emits a crossing exactly on that transition.  So an arming
\* index lies before the first crossing and between two consecutive ones,
\* and no crossing is emitted at the index that arms.
C14_TwoStateScan ==
  [][ /\ estimate_freq_call => ~ef_armed'
      /\ estimate_freq_scan =>
           LET a == ef_x[ef_i]
               b == ef_x[ef_i + 1]
               emitted == ef_crossings_t' # ef_crossings_t
           IN  /\ ~ef_armed /\ ef_armed' => HYST_DEN * b <= 0 - PeakOf(ef_x)
               /\ ef_armed /\ ~ef_armed' => a < 0 /\ 0 <= b
               /\ emitted <=> ef_armed /\ ~ef_armed'
               /\ emitted => Len(ef_crossings_t') = Len(ef_crossings_t) + 1
               /\ ~ef_armed => ~emitted
               /\ Len(ef_crossed_at') <= Len(ef_armed_at')
               /\ \A k \in 1..Len(ef_crossed_at') :
                    /\ ef_armed_at'[k] < ef_crossed_at'[k]
                    /\ k > 1 => ef_crossed_at'[k - 1] < ef_armed_at'[k]
                    /\ HYST_DEN * ef_x[ef_armed_at'[k] + 1] <= 0 - PeakOf(ef_x) ]_vars

\* the scan armed again after a crossing and emitted a second crossing
C14_Witness ==
  /\ ef_pc = "scan"
  /\ Len(ef_crossed_at) = 2
  /\ Len(ef_armed_at) = 3
  /\ ef_armed

\* the first 0-based index i <= n - 2 of w at which w steps up through the
\* level: from below it to it or above it, or from it to above it; 0 if none
FirstRise(w, n, level) ==
  LET rises == {i \in 0..(n - 2) :
                  \/ w[i + 1] < level /\ w[i + 2] >= level
                  \/ w[i + 1] = level /\ w[i + 2] > level}
  IN  IF rises # {} THEN CHOOSE i \in rises : \A j \in rises : i <= j ELSE 0

\* the first 0-based index i <= n - 2 of w at which w goes from at or below
\* the level to above it; 0 if none
FirstRiseToPositive(w, n, level) ==
  LET rises == {i \in 0..(n - 2) : w[i + 1] <= level /\ w[i + 2] > level}
  IN  IF rises # {} THEN CHOOSE i \in rises : \A j \in rises : i <= j ELSE 0

\* the trigger search of this tick ran (line 178)
SearchRan == c_pc = "plot" /\ trigger_on /\ Len(vis_data) > CHUNK

\* C15 as stated: when the search runs, the offset is the first index among
\* the first CHUNK samples at which the sign of (sample - level) goes from
\* non-positive to positive, and 0 when there is none.
C15_FirstNonPositiveToPositive ==
  SearchRan => offset = FirstRiseToPositive(vis_data, CHUNK, trigger_level)

\* C15, amended: when the search runs, the offset is the first index among
\* the first CHUNK samples at which the sign of (sample - level) increases,
\* a step from below the level onto it included, and 0 when there is none.
C15_FirstSignIncrease ==
  SearchRan => offset = FirstRise(vis_data, CHUNK, trigger_level)

\* the search found its only rise at the last index it looks at, a step from
\* the level to above it
C15_Witness ==
  /\ SearchRan
  /\ offset = CHUNK - 2
  /\ vis_data[CHUNK - 1] = trigger_level
  /\ vis_data[CHUNK] > trigger_level

\* C16: the search is skipped exactly when triggering is off or the visual
\* window is shorter than CHUNK; a window of CHUNK samples or more has its
\* first CHUNK samples searched.
C16_SearchedFromChunkSamples ==
  c_pc = "plot" =>
    offset = IF trigger_on /\ Len(vis_data) >= CHUNK
               THEN FirstRise(vis_data, CHUNK, trigger_level)
               ELSE 0

\* C20: on every tick 0 <= offset <= CHUNK - 2 and offset < len(vis_data), so
\* the sequence displayed is a non-empty suffix of the visual slice and ends
\* with the most recent sample of the snapshot.
C20_OffsetInRange ==
  [][ update_plot =>
        /\ 0 <= offset /\ offset <= CHUNK - 2
        /\ offset < Len(vis_data)
        /\ line_data' # <<>>
        /\ \E k \in 0..(Len(vis_data) - 1) :
             line_data' = SubSeq(vis_data, k + 1, Len(vis_data))
        /\ line_data'[Len(line_data')] = all_data[Len(all_data)]
        /\ xlim' = Len(line_data') ]_vars

\* a tick plotted from the largest offset the search can return
C20_Witness ==
  /\ c_pc = "plot"
  /\ trigger_on
  /\ offset = CHUNK - 2
  /\ Len(vis_data) = CHUNK + 1

\* C17: update never propagates an exception, and a tick in which a step
\* fails after the snapshot is skipped as a whole: the line data and the axes
\* limits shown before the tick are the ones shown after it.
C17_FailedTickSkipped ==
  [][ (c_pc' = "except" /\ c_pc \in {"freq", "trig", "plot"}) =>
        display_vars' = display_vars ]_vars

\* |e - f| <= f / 100 for positive fractions e and f
WithinOnePercent(e, f) == 100 * Abs(e[1] * f[2] - f[1] * e[2]) <= f[1] * e[2]

\* estimate_freq returned a value within 1% of the frequency of the input d
SineEstimated(d) ==
  ef_samples = SineWindow(d) =>
    ef_result # None /\ WithinOnePercent(ef_result, SineFreq(d.sine, RATE))

C19_GuardsNeverFire ==
  LET t == ef_crossings_t
      at == ef_crossed_at
  IN  /\ Len(t) = Len(at)
      /\ \A k \in 1..Len(at) :
           LET a == ef_x[at[k]]
               b == ef_x[at[k] + 1]
           IN  /\ b - a # 0
               /\ 0 < 0 - a /\ 0 - a <= b - a
               /\ t[k] = QMul(<<(at[k] - 1) * (b - a) - a, b - a>>, <<1, RATE>>)
      /\ \A k \in 1..(Len(at) - 1) :
           /\ QLess(t[k], t[k + 1])
           /\ at[k + 1] - at[k] >= 2
           /\ Periods(t)[k][1] > 0
      /\ Len(t) >= 2 => Periods(t) # <<>> /\ Median(Periods(t))[1] > 0

\* a call found three crossings, one of them exactly on a sample
C19_Witness ==
  /\ ef_pc = "done"
  /\ Len(ef_crossed_at) = 3
  /\ \E k \in 1..3 : ef_x[ef_crossed_at[k] + 1] = 0

====
